---- MODULE Spec2Model ----
(***************************************************************************)
(* Model of the Move module supply_chain::supply_chain_tracker             *)
(* (src/frontend/lib/websocket.ts, lines 742-1517): the shared             *)
(* SupplyChainTracker object, the Shipment objects and the entry functions *)
(* that mutate them.                                                       *)
(*                                                                         *)
(* Every entry function is one transaction.  A Move transaction that       *)
(* aborts (a failed assert!, an arithmetic overflow, a table::add on a     *)
(* present key, a table::borrow_mut on an absent key) leaves every object  *)
(* as it was and emits no event; the model records the abort code of the   *)
(* last transaction in lastCall and the events it emitted in events.       *)
(* Object ownership as enforced by the ledger runtime is outside the       *)
(* module: every address may submit every entry function.                  *)
(***************************************************************************)
EXTENDS Integers, Sequences, FiniteSets, TLC

VARIABLES
    tracker,      \* the shared SupplyChainTracker object
    shipments,    \* sequence of Shipment objects; the object ID is the index
    clock,        \* sui::clock timestamp; one tick per committed transaction
    lastCall,     \* [op, abort] of the last transaction
    events,       \* events emitted by the last transaction
    transfersOk,  \* history: per shipment, number of transfer_custody calls that succeeded
    named,        \* history: per shipment, the new custodians its successful transfers named
    inflight      \* requests submitted concurrently: request -> "pending" or its abort code

vars == <<tracker, shipments, clock, lastCall, events, transfersOk, named, inflight>>

-----------------------------------------------------------------------------
\* Bounds of the model.

\* Largest value of the clock.  The clock advances by one with every committed
\* transaction that changes an object, so a behaviour commits fewer than
\* MaxClock of them.
MaxClock == 5

-----------------------------------------------------------------------------
\* Error codes and values of the source.

ENotAuthorized == "ENotAuthorized"
EInvalidTransition == "EInvalidTransition"
\* Aborts raised by the framework and the VM, not by an assert! of the module.
EFieldAlreadyExists == "EFieldAlreadyExists"
EFieldDoesNotExist == "EFieldDoesNotExist"
ArithmeticError == "ARITHMETIC_ERROR"
NoAbort == "none"

\* ShipmentStatus.status codes.
Created == 0
InTransit == 1
Delivered == 2

\* Option<T>: none is the empty sequence, some(x) the one-element sequence.
None == <<>>
Some(x) == <<x>>
is_some(o) == Len(o) = 1

\* Width of u8.
U8Max == 255

-----------------------------------------------------------------------------
\* Input alphabets.

Address == {"admin", "alice", "bob"}
Admin == "admin"
\* The (participant, role) pairs given to register_participant: every role of
\* the source once, and one role string no branch matches.
Registrations ==
    {<<"alice", "manufacturer">>, <<"bob", "distributor">>, <<"bob", "auditor">>,
     <<"admin", "retailer">>, <<"admin", "customs">>, <<"alice", "inspector">>}

Location(lat, long, addr, cc, ft) ==
    [latitude |-> lat, longitude |-> long, address |-> addr, country_code |-> cc,
     region |-> "EU", facility_type |-> ft, facility_id |-> Some(addr)]

LocOrigin == Location("10", "20", "Factory Rd", "DE", "factory")
LocDest == Location("50", "60", "Market St", "FR", "warehouse")
LocPort == Location("30", "40", "Dock 4", "NL", "port")

\* Parties a stage plan may name as responsible.
StageParties == {"alice", "bob"}

SupplyStage(party) ==
    [stage_name |-> "stage", responsible_party |-> party, location |-> LocPort,
     completed |-> FALSE, completion_timestamp |-> None,
     verification_signatures |-> <<>>]

EnvironmentalSpec(minT, maxT, minH, maxH) ==
    [min_temperature |-> minT, max_temperature |-> maxT,
     min_humidity |-> minH, max_humidity |-> maxH,
     pressure_requirements |-> None, vibration_limits |-> None,
     light_exposure_max |-> None, time_sensitive |-> FALSE,
     max_exposure_hours |-> None]

TempSpec == EnvironmentalSpec(None, Some(3000), None, None)
HumiditySpec == EnvironmentalSpec(None, None, None, Some(6000))

\* The (stage plan, environmental spec) pairs given to create_shipment.
ShipmentPlans ==
    {<<<<>>, HumiditySpec>>,
     <<<<SupplyStage("alice")>>, TempSpec>>,
     <<<<SupplyStage("alice"), SupplyStage("bob")>>, HumiditySpec>>,
     <<<<[SupplyStage("bob") EXCEPT !.completed = TRUE]>>, TempSpec>>}

-----------------------------------------------------------------------------
\* The object IDs object::new can hand out to shipments.
ObjectIds == {1}

\* Tables (sui::table) are functions with a finite domain.

EmptyTable == <<>>
table_contains(t, k) == k \in DOMAIN t
table_add(t, k, v) == (k :> v) @@ t

\* Mutant: an aborted transaction keeps the writes it made to the shipments.
Commit_keepsWrites(op, abort, ts, tr, ss, evs, tok) ==
    /\ abort # NoAbort \/ <<tr, ss>> = <<tracker, shipments>> \/ clock < MaxClock
    /\ lastCall' = [op |-> op, abort |-> abort]
    /\ IF abort = NoAbort
       THEN /\ tracker' = tr
            /\ shipments' = ss
            /\ events' = evs
            /\ transfersOk' = tok
            /\ clock' = IF <<tr, ss>> = <<tracker, shipments>> THEN clock ELSE ts + 1
       ELSE /\ UNCHANGED <<tracker, transfersOk, clock>>
            /\ shipments' = ss
            /\ events' = <<>>

\* A transaction that reads the clock at ts.  An aborted transaction changes
\* no object and emits nothing.
Commit(op, abort, ts, tr, ss, evs, tok) ==
    /\ abort # NoAbort \/ <<tr, ss>> = <<tracker, shipments>> \/ clock < MaxClock
    /\ lastCall' = [op |-> op, abort |-> abort]
    /\ IF abort = NoAbort
       THEN /\ tracker' = tr
            /\ shipments' = ss
            /\ events' = evs
            /\ transfersOk' = tok
            /\ clock' = IF <<tr, ss>> = <<tracker, shipments>> THEN clock ELSE ts + 1
       ELSE /\ UNCHANGED <<tracker, shipments, transfersOk, clock>>
            /\ events' = <<>>

-----------------------------------------------------------------------------
\* fun init

Init ==
    /\ tracker = [admin |-> Admin, total_shipments |-> 0,
                  active_shipments |-> EmptyTable,
                  manufacturers |-> EmptyTable, distributors |-> EmptyTable,
                  retailers |-> EmptyTable, customs_authorities |-> EmptyTable,
                  auditors |-> EmptyTable]
    /\ shipments = <<>>
    /\ clock = 1
    /\ lastCall = [op |-> "init", abort |-> NoAbort]
    /\ events = <<>>
    /\ transfersOk = <<>>
    /\ named = <<>>
    /\ inflight = <<>>

-----------------------------------------------------------------------------
\* register_participant

ParticipantInfo(name) ==
    [name |-> name, public_key |-> "pk", certifications |-> <<>>,
     authorized_regions |-> <<>>, risk_rating |-> 0, last_audit_timestamp |-> 0,
     active |-> TRUE]

\* Mutant: a sixth branch enters an "inspector" among the auditors.
RoleTable_inspectorAudits(role) ==
    CASE role = "manufacturer" -> "manufacturers"
      [] role = "distributor" -> "distributors"
      [] role = "retailer" -> "retailers"
      [] role = "customs" -> "customs_authorities"
      [] role = "auditor" -> "auditors"
      [] role = "inspector" -> "auditors"
      [] OTHER -> ""

\* The table a role string selects, or "" when the role matches no branch.
RoleTable(role) ==
    CASE role = "manufacturer" -> "manufacturers"
      [] role = "distributor" -> "distributors"
      [] role = "retailer" -> "retailers"
      [] role = "customs" -> "customs_authorities"
      [] role = "auditor" -> "auditors"
      [] OTHER -> ""

\* Mutant: the sender is not compared with the admin.
register_participant_abort_anyCaller(tr, sender, participant, role) ==
    IF RoleTable(role) # "" /\ table_contains(tr[RoleTable(role)], participant)
    THEN EFieldAlreadyExists
    ELSE NoAbort

\* The assertion of register_participant, then the abort of table::add on a
\* key the table holds.
register_participant_abort(tr, sender, participant, role) ==
    IF sender # tr.admin THEN ENotAuthorized
    ELSE IF RoleTable(role) # "" /\ table_contains(tr[RoleTable(role)], participant)
         THEN EFieldAlreadyExists
         ELSE NoAbort

register_participant_effect(tr, participant, info, role) ==
    IF RoleTable(role) = "" THEN tr
    ELSE [tr EXCEPT ![RoleTable(role)] = table_add(@, participant, info)]

register_participant(sender, participant, name, role) ==
    Commit("register_participant",
           register_participant_abort(tracker, sender, participant, role),
           clock,
           register_participant_effect(tracker, participant, ParticipantInfo(name), role),
           shipments, <<>>, transfersOk)

-----------------------------------------------------------------------------
\* create_shipment

\* Mutant: a retailer may create a shipment as well.
create_shipment_abort_retailersToo(tr, shipper) ==
    IF \/ table_contains(tr.manufacturers, shipper)
       \/ table_contains(tr.distributors, shipper)
       \/ table_contains(tr.retailers, shipper)
    THEN NoAbort
    ELSE ENotAuthorized

\* The assertion of create_shipment.
create_shipment_abort(tr, shipper) ==
    IF table_contains(tr.manufacturers, shipper) \/ table_contains(tr.distributors, shipper)
    THEN NoAbort
    ELSE ENotAuthorized

\* hash::keccak256 of the concatenated bytes: an injective tag of the input.
keccak256(data) == <<"keccak256", data>>

\* Mutant: the country code of the origin enters the digest as well.
integrity_data_withCountry(tracking_number, origin, destination) ==
    tracking_number \o origin.address \o origin.country_code \o destination.address

\* The bytes the digest is computed from.
integrity_data(tracking_number, origin, destination) ==
    tracking_number \o origin.address \o destination.address

\* Mutant: the consignee is entered as an authorized handler.
NewShipment_withHandler(shipper, timestamp, tracking_number, consignee, origin, destination, stages, environmental_requirements) ==
    [tracking_number |-> tracking_number,
     origin |-> origin,
     destination |-> destination,
     current_location |-> origin,
     shipper |-> shipper,
     consignee |-> consignee,
     current_custodian |-> shipper,
     authorized_handlers |-> <<consignee>>,
     creation_timestamp |-> timestamp,
     actual_delivery |-> None,
     stages |-> stages,
     current_stage_index |-> 0,
     tamper_seals |-> <<>>,
     custody_signatures |-> <<>>,
     integrity_hash |-> keccak256(integrity_data(tracking_number, origin, destination)),
     environmental_requirements |-> environmental_requirements,
     condition_violations |-> <<>>,
     gps_coordinates |-> <<>>,
     sensor_readings |-> <<>>,
     risk_score |-> 0,
     security_alerts |-> <<>>]

\* The Shipment object create_shipment builds.
NewShipment(shipper, timestamp, tracking_number, consignee, origin, destination, stages, environmental_requirements) ==
    [tracking_number |-> tracking_number,
     origin |-> origin,
     destination |-> destination,
     current_location |-> origin,
     shipper |-> shipper,
     consignee |-> consignee,
     current_custodian |-> shipper,
     authorized_handlers |-> <<>>,
     creation_timestamp |-> timestamp,
     actual_delivery |-> None,
     stages |-> stages,
     current_stage_index |-> 0,
     tamper_seals |-> <<>>,
     custody_signatures |-> <<>>,
     integrity_hash |-> keccak256(integrity_data(tracking_number, origin, destination)),
     environmental_requirements |-> environmental_requirements,
     condition_violations |-> <<>>,
     gps_coordinates |-> <<>>,
     sensor_readings |-> <<>>,
     risk_score |-> 0,
     security_alerts |-> <<>>]

\* Mutant: total_shipments is not incremented.
create_shipment_tracker_noCount(tr, shipment_id, shipper, timestamp) ==
    [tr EXCEPT !.active_shipments =
                   table_add(@, shipment_id,
                             [status |-> Created, last_update |-> timestamp,
                              updated_by |-> shipper])]

\* The tracker after create_shipment registered the shipment under shipment_id.
create_shipment_tracker(tr, shipment_id, shipper, timestamp) ==
    [tr EXCEPT !.total_shipments = @ + 1,
               !.active_shipments =
                   table_add(@, shipment_id,
                             [status |-> Created, last_update |-> timestamp,
                              updated_by |-> shipper])]

ShipmentCreated(shipment_id, tracking_number, shipper, consignee, timestamp) ==
    [type |-> "ShipmentCreated", shipment_id |-> shipment_id,
     tracking_number |-> tracking_number, shipper |-> shipper,
     consignee |-> consignee, timestamp |-> timestamp]

create_shipment(sender, tracking_number, consignee, origin, destination, stages, env) ==
    LET ts == clock IN
        LET shipment_id == Len(shipments) + 1 IN
        /\ shipment_id \in ObjectIds
        /\ Commit("create_shipment",
               create_shipment_abort(tracker, sender),
               ts,
               create_shipment_tracker(tracker, shipment_id, sender, ts),
               Append(shipments,
                      NewShipment(sender, ts, tracking_number, consignee, origin,
                                  destination, stages, env)),
               <<ShipmentCreated(shipment_id, tracking_number, sender, consignee, ts)>>,
               Append(transfersOk, 0))

-----------------------------------------------------------------------------
\* add_tamper_seal

\* Mutant: the applier is not compared with the custodian.
add_tamper_seal_abort_anyCaller(s, applier) == NoAbort

\* The assertion of add_tamper_seal.
add_tamper_seal_abort(s, applier) ==
    IF applier = s.current_custodian THEN NoAbort ELSE ENotAuthorized

TamperSeal(seal_id, seal_type, applier, timestamp) ==
    [seal_id |-> seal_id, seal_type |-> seal_type, applied_by |-> applier,
     applied_timestamp |-> timestamp, cryptographic_signature |-> "sig",
     broken |-> FALSE, broken_timestamp |-> None, break_detection_method |-> None]

\* Mutant: the new seal takes the place of the seals applied before.
add_tamper_seal_effect_replaces(s, seal) ==
    [s EXCEPT !.tamper_seals = <<seal>>]

\* The push_back on the seal list.
add_tamper_seal_effect(s, seal) ==
    [s EXCEPT !.tamper_seals = Append(@, seal)]

add_tamper_seal(sender, id, seal_id, seal_type) ==
    LET ts == clock IN
        Commit("add_tamper_seal",
               add_tamper_seal_abort(shipments[id], sender),
               ts,
               tracker,
               [shipments EXCEPT ![id] =
                    add_tamper_seal_effect(@, TamperSeal(seal_id, seal_type, sender, ts))],
               <<>>, transfersOk)

-----------------------------------------------------------------------------
\* transfer_custody

\* Mutant: the caller is not compared with the current custodian.
transfer_custody_abort_anyCaller(tr, s, sender, new_custodian) ==
    IF ~ ( \/ table_contains(tr.manufacturers, new_custodian)
           \/ table_contains(tr.distributors, new_custodian)
           \/ table_contains(tr.retailers, new_custodian)
           \/ table_contains(tr.customs_authorities, new_custodian) )
    THEN ENotAuthorized
    ELSE NoAbort

\* Mutant: the auditors table also admits a new custodian.
transfer_custody_abort_auditorsToo(tr, s, sender, new_custodian) ==
    IF sender # s.current_custodian THEN ENotAuthorized
    ELSE IF ~ ( \/ table_contains(tr.manufacturers, new_custodian)
                \/ table_contains(tr.distributors, new_custodian)
                \/ table_contains(tr.retailers, new_custodian)
                \/ table_contains(tr.customs_authorities, new_custodian)
                \/ table_contains(tr.auditors, new_custodian) )
         THEN ENotAuthorized
         ELSE NoAbort

\* The two assertions of transfer_custody, in source order.
transfer_custody_abort(tr, s, sender, new_custodian) ==
    IF sender # s.current_custodian THEN ENotAuthorized
    ELSE IF ~ ( \/ table_contains(tr.manufacturers, new_custodian)
                \/ table_contains(tr.distributors, new_custodian)
                \/ table_contains(tr.retailers, new_custodian)
                \/ table_contains(tr.customs_authorities, new_custodian) )
         THEN ENotAuthorized
         ELSE NoAbort

CustodySignature(signer, timestamp, action, location, witness, condition_notes) ==
    [signer |-> signer, signature |-> "sig", timestamp |-> timestamp,
     action |-> action, location |-> location, witness |-> witness,
     condition_notes |-> condition_notes]

\* Mutant: the custodian is not replaced.
transfer_custody_effect_keepsCustodian(s, custody_signature, new_custodian, current_location) ==
    [s EXCEPT !.custody_signatures = Append(@, custody_signature),
              !.current_location = current_location]

\* Mutant: the new entry replaces the chain instead of extending it.
transfer_custody_effect_overwrites(s, custody_signature, new_custodian, current_location) ==
    [s EXCEPT !.custody_signatures = <<custody_signature>>,
              !.current_custodian = new_custodian,
              !.current_location = current_location]

\* Mutant: the hand-over extends the integrity digest.
transfer_custody_effect_rehashes(s, custody_signature, new_custodian, current_location) ==
    [s EXCEPT !.custody_signatures = Append(@, custody_signature),
              !.current_custodian = new_custodian,
              !.current_location = current_location,
              !.integrity_hash = keccak256(current_location.address)]

\* Mutant: the entry is signed by the new custodian.
transfer_custody_effect_signedByNew(s, custody_signature, new_custodian, current_location) ==
    [s EXCEPT !.custody_signatures =
                  Append(@, [custody_signature EXCEPT !.signer = new_custodian]),
              !.current_custodian = new_custodian,
              !.current_location = current_location]

\* The push_back on the custody chain and the two writes to the shipment.
transfer_custody_effect(s, custody_signature, new_custodian, current_location) ==
    [s EXCEPT !.custody_signatures = Append(@, custody_signature),
              !.current_custodian = new_custodian,
              !.current_location = current_location]

\* Mutant: last_update is not written.
transfer_custody_tracker_noUpdate(tr, id, timestamp, new_custodian) ==
    [tr EXCEPT !.active_shipments[id].updated_by = new_custodian]

\* Mutant: the hand-over sets the status InTransit.
transfer_custody_tracker_setsInTransit(tr, id, timestamp, new_custodian) ==
    [tr EXCEPT !.active_shipments[id].status = InTransit,
               !.active_shipments[id].last_update = timestamp,
               !.active_shipments[id].updated_by = new_custodian]

\* table::borrow_mut on the shipment's status entry, then the two writes.
transfer_custody_tracker(tr, id, timestamp, new_custodian) ==
    [tr EXCEPT !.active_shipments[id].last_update = timestamp,
               !.active_shipments[id].updated_by = new_custodian]

CustodyTransferred(id, from, to, location, timestamp) ==
    [type |-> "CustodyTransferred", shipment_id |-> id, from_custodian |-> from,
     to_custodian |-> to, location |-> location, timestamp |-> timestamp]

transfer_custody(sender, id, new_custodian, action, current_location, witness) ==
    LET ts == clock IN
        LET s == shipments[id]
            abort == IF transfer_custody_abort(tracker, s, sender, new_custodian) # NoAbort
                     THEN transfer_custody_abort(tracker, s, sender, new_custodian)
                     ELSE IF ~ table_contains(tracker.active_shipments, id)
                          THEN EFieldDoesNotExist
                          ELSE NoAbort
            sig == CustodySignature(sender, ts, action, current_location, witness, "ok")
        IN
        Commit("transfer_custody", abort, ts,
               IF abort = NoAbort
               THEN transfer_custody_tracker(tracker, id, ts, new_custodian)
               ELSE tracker,
               [shipments EXCEPT ![id] =
                    transfer_custody_effect(@, sig, new_custodian, current_location)],
               <<CustodyTransferred(id, sender, new_custodian, current_location.address, ts)>>,
               [transfersOk EXCEPT ![id] = @ + 1])

-----------------------------------------------------------------------------
\* complete_stage

\* Mutant: the responsible party is not checked.
complete_stage_abort_anyCaller(s, completer) ==
    IF ~ (s.current_stage_index < Len(s.stages)) THEN EInvalidTransition
    ELSE NoAbort

\* Mutant: a finished plan is reported with the wrong error code.
complete_stage_abort_wrongCode(s, completer) ==
    IF ~ (s.current_stage_index < Len(s.stages)) THEN ENotAuthorized
    ELSE IF completer # s.stages[s.current_stage_index + 1].responsible_party
         THEN ENotAuthorized
         ELSE NoAbort

\* The two assertions of complete_stage, in source order.
complete_stage_abort(s, completer) ==
    IF ~ (s.current_stage_index < Len(s.stages)) THEN EInvalidTransition
    ELSE IF completer # s.stages[s.current_stage_index + 1].responsible_party
         THEN ENotAuthorized
         ELSE NoAbort

\* The stage to complete: vectors are 0-based, sequences 1-based.
current_stage(s) == s.stages[s.current_stage_index + 1]

\* Mutant: strict comparison, so the last stage never counts as the end.
all_stages_completed_strict(s) == s.current_stage_index > Len(s.stages)

\* All stages completed after the index moved on.
all_stages_completed(s) == s.current_stage_index >= Len(s.stages)

\* Mutant: the index moves on by two.
complete_stage_effect_skips(s, verification_signatures, timestamp) ==
    LET stage_index == s.current_stage_index
        marked == [s EXCEPT !.stages[stage_index + 1].completed = TRUE,
                            !.stages[stage_index + 1].completion_timestamp = Some(timestamp),
                            !.stages[stage_index + 1].verification_signatures =
                                verification_signatures]
        moved == [marked EXCEPT !.current_stage_index = stage_index + 2]
    IN IF moved.current_stage_index >= Len(moved.stages)
       THEN [moved EXCEPT !.actual_delivery = Some(timestamp)]
       ELSE moved

complete_stage_effect(s, verification_signatures, timestamp) ==
    LET stage_index == s.current_stage_index
        marked == [s EXCEPT !.stages[stage_index + 1].completed = TRUE,
                            !.stages[stage_index + 1].completion_timestamp = Some(timestamp),
                            !.stages[stage_index + 1].verification_signatures =
                                verification_signatures]
        moved == [marked EXCEPT !.current_stage_index = stage_index + 1]
    IN IF all_stages_completed(moved)
       THEN [moved EXCEPT !.actual_delivery = Some(timestamp)]
       ELSE moved

complete_stage_tracker(tr, id, delivered, timestamp) ==
    IF delivered
    THEN [tr EXCEPT !.active_shipments[id].status = Delivered,
                    !.active_shipments[id].last_update = timestamp]
    ELSE tr

StageCompleted(id, stage_name, completed_by, location, timestamp) ==
    [type |-> "StageCompleted", shipment_id |-> id, stage_name |-> stage_name,
     completed_by |-> completed_by, location |-> location, timestamp |-> timestamp]

complete_stage(sender, id, verification_signatures) ==
    LET ts == clock IN
        LET s == shipments[id]
            early == complete_stage_abort(s, sender)
            after == IF early = NoAbort
                     THEN complete_stage_effect(s, verification_signatures, ts)
                     ELSE s
            delivered == early = NoAbort /\ all_stages_completed(after)
            abort == IF early # NoAbort THEN early
                     ELSE IF delivered /\ ~ table_contains(tracker.active_shipments, id)
                          THEN EFieldDoesNotExist
                          ELSE NoAbort
        IN
        Commit("complete_stage", abort, ts,
               IF abort = NoAbort
               THEN complete_stage_tracker(tracker, id, delivered, ts)
               ELSE tracker,
               [shipments EXCEPT ![id] = after],
               IF abort = NoAbort
               THEN <<StageCompleted(id, current_stage(s).stage_name, sender,
                                     current_stage(s).location.address, ts)>>
               ELSE <<>>,
               transfersOk)

-----------------------------------------------------------------------------
\* report_security_incident

\* u8 arithmetic of the risk-score update: the VM aborts on overflow.
\* Mutant: the 8-bit arithmetic never aborts.
report_security_incident_abort_never(s, severity) == NoAbort

report_security_incident_abort(s, severity) ==
    IF severity * 10 > U8Max THEN ArithmeticError
    ELSE IF s.risk_score + severity * 10 > U8Max THEN ArithmeticError
         ELSE NoAbort

SecurityAlert(alert_type, severity, timestamp, location, description) ==
    [alert_id |-> keccak256(alert_type), alert_type |-> alert_type,
     severity |-> severity, timestamp |-> timestamp, location |-> location,
     description |-> description, resolved |-> FALSE,
     resolution_timestamp |-> None, resolution_notes |-> None]

\* Mutant: the severity is added without the factor ten.
new_risk_score_unscaled(risk_score, severity) ==
    IF risk_score + severity > 100 THEN 100 ELSE risk_score + severity

\* Mutant: the sum is not capped.
new_risk_score_uncapped(risk_score, severity) == risk_score + severity * 10

\* The update of the risk score: the sum, then the cap at 100.
new_risk_score(risk_score, severity) ==
    IF risk_score + severity * 10 > 100 THEN 100 ELSE risk_score + severity * 10

report_security_incident_effect(s, alert_type, severity, description, timestamp) ==
    [s EXCEPT !.security_alerts =
                  Append(@, SecurityAlert(alert_type, severity, timestamp,
                                          s.current_location, description)),
              !.risk_score = new_risk_score(@, severity)]

SecurityIncident(id, alert_type, severity, location, timestamp) ==
    [type |-> "SecurityIncident", shipment_id |-> id, alert_type |-> alert_type,
     severity |-> severity, location |-> location, timestamp |-> timestamp]

report_security_incident(sender, id, alert_type, severity, description) ==
    LET ts == clock IN
        LET s == shipments[id] IN
        Commit("report_security_incident",
               report_security_incident_abort(s, severity),
               ts,
               tracker,
               [shipments EXCEPT ![id] =
                    report_security_incident_effect(@, alert_type, severity, description, ts)],
               <<SecurityIncident(id, alert_type, severity, s.current_location.address, ts)>>,
               transfersOk)

-----------------------------------------------------------------------------
\* add_gps_point

vector_contains(v, x) == \E i \in 1..Len(v) : v[i] = x

\* Mutant: the caller is not checked.
add_gps_point_abort_anyCaller(s, sender) == NoAbort

\* The assertion of add_gps_point.
add_gps_point_abort(s, sender) ==
    IF sender = s.current_custodian \/ vector_contains(s.authorized_handlers, sender)
    THEN NoAbort
    ELSE ENotAuthorized

GPSPoint(latitude, longitude, timestamp, accuracy_meters, source) ==
    [latitude |-> latitude, longitude |-> longitude, timestamp |-> timestamp,
     accuracy_meters |-> accuracy_meters, source |-> source]

\* Mutant: the whole current location is replaced by the bare coordinates.
add_gps_point_effect_wholeLocation(s, gps_point) ==
    [s EXCEPT !.gps_coordinates = Append(@, gps_point),
              !.current_location =
                  Location(gps_point.latitude, gps_point.longitude, "", "", "")]

\* The push_back on the GPS trail and the two writes to current_location.
add_gps_point_effect(s, gps_point) ==
    [s EXCEPT !.gps_coordinates = Append(@, gps_point),
              !.current_location.latitude = gps_point.latitude,
              !.current_location.longitude = gps_point.longitude]

add_gps_point(sender, id, latitude, longitude, accuracy_meters, source) ==
    LET ts == clock IN
        Commit("add_gps_point",
               add_gps_point_abort(shipments[id], sender),
               ts,
               tracker,
               [shipments EXCEPT ![id] =
                    add_gps_point_effect(@, GPSPoint(latitude, longitude, ts,
                                                     accuracy_meters, source))],
               <<>>, transfersOk)

-----------------------------------------------------------------------------
\* add_sensor_reading and check_environmental_violations

SensorReading(sensor_id, sensor_type, value, unit, timestamp) ==
    [sensor_id |-> sensor_id, sensor_type |-> sensor_type, value |-> value,
     unit |-> unit, timestamp |-> timestamp, quality_score |-> 100,
     calibration_date |-> 0]

ConditionViolation(sensor_reading, timestamp) ==
    [violation_type |-> "temperature", detected_timestamp |-> timestamp,
     sensor_id |-> sensor_reading.sensor_id, actual_value |-> sensor_reading.value,
     threshold_value |-> "threshold", duration_minutes |-> 1, severity |-> 3,
     corrective_action |-> None]

\* Mutant: the violation is recorded twice.
check_environmental_violations_twice(s, sensor_reading, timestamp) ==
    LET env_spec == s.environmental_requirements IN
    IF /\ sensor_reading.sensor_type = "temperature"
       /\ (is_some(env_spec.min_temperature) \/ is_some(env_spec.max_temperature))
    THEN [s EXCEPT !.condition_violations =
                       Append(Append(@, ConditionViolation(sensor_reading, timestamp)),
                              ConditionViolation(sensor_reading, timestamp))]
    ELSE s

\* The value of the reading is never parsed nor compared with a bound.
check_environmental_violations(s, sensor_reading, timestamp) ==
    LET env_spec == s.environmental_requirements IN
    IF /\ sensor_reading.sensor_type = "temperature"
       /\ (is_some(env_spec.min_temperature) \/ is_some(env_spec.max_temperature))
    THEN [s EXCEPT !.condition_violations =
                       Append(@, ConditionViolation(sensor_reading, timestamp))]
    ELSE s

\* Mutant: a reading that repeats the sensor, type and value of a stored one
\* is dropped.
add_sensor_reading_effect_dedup(s, sensor_reading, timestamp) ==
    IF \E i \in 1..Len(s.sensor_readings) :
           /\ s.sensor_readings[i].sensor_id = sensor_reading.sensor_id
           /\ s.sensor_readings[i].sensor_type = sensor_reading.sensor_type
           /\ s.sensor_readings[i].value = sensor_reading.value
    THEN s
    ELSE check_environmental_violations(
             [s EXCEPT !.sensor_readings = Append(@, sensor_reading)],
             sensor_reading, timestamp)

\* The push_back on the sensor trail, then the check of the reading.
add_sensor_reading_effect(s, sensor_reading, timestamp) ==
    check_environmental_violations(
        [s EXCEPT !.sensor_readings = Append(@, sensor_reading)],
        sensor_reading, timestamp)

add_sensor_reading(sender, id, sensor_id, sensor_type, value, unit) ==
    LET ts == clock IN
        Commit("add_sensor_reading", NoAbort, ts, tracker,
               [shipments EXCEPT ![id] =
                    add_sensor_reading_effect(@, SensorReading(sensor_id, sensor_type,
                                                               value, unit, ts), ts)],
               <<>>, transfersOk)

-----------------------------------------------------------------------------
\* View functions

is_delivered(s) == is_some(s.actual_delivery)

-----------------------------------------------------------------------------
\* More input alphabets.

TrackingNumbers == {"TRK-1"}
Severities == {5, 6, 26}
\* (sensor_type, value) pairs given to add_sensor_reading.
Readings == {<<"temperature", "2000">>, <<"temperature", "5000">>, <<"humidity", "9000">>}
Latitudes == {"11"}

ShipmentIds == 1..Len(shipments)

-----------------------------------------------------------------------------
\* The history a transaction leaves in named: a new shipment starts with no
\* name, a successful transfer_custody adds the new custodian it named.
Recorded ==
    named' = IF Len(shipments') > Len(shipments) THEN Append(named, <<>>)
             ELSE IF lastCall' = [op |-> "transfer_custody", abort |-> NoAbort]
                  THEN [named EXCEPT ![events'[1].shipment_id] =
                                         Append(@, events'[1].to_custodian)]
                  ELSE named

\* What every transaction of the module leaves outside the objects: its trace
\* in the history, and no request in flight.
Sequential == Recorded /\ UNCHANGED inflight

Next ==
    \/ \E sender \in Address, reg \in Registrations :
          register_participant(sender, reg[1], "Acme", reg[2]) /\ Sequential
    \/ \E sender \in Address, tn \in TrackingNumbers, plan \in ShipmentPlans :
          /\ create_shipment(sender, tn, "bob", LocOrigin, LocDest, plan[1], plan[2])
          /\ Sequential
    \/ \E sender \in Address, id \in ShipmentIds :
          add_tamper_seal(sender, id, "seal-1", "rfid") /\ Sequential
    \/ \E sender \in Address, id \in ShipmentIds, new_custodian \in Address :
          /\ transfer_custody(sender, id, new_custodian, "handover", LocPort, None)
          /\ Sequential
    \/ \E sender \in Address, id \in ShipmentIds :
          complete_stage(sender, id, <<"vsig">>) /\ Sequential
    \/ \E sender \in Address, id \in ShipmentIds, severity \in Severities :
          /\ report_security_incident(sender, id, "tamper", severity, "seal broken")
          /\ Sequential
    \/ \E sender \in Address, id \in ShipmentIds, lat \in Latitudes :
          add_gps_point(sender, id, lat, "21", 5, "device") /\ Sequential
    \/ \E sender \in Address, id \in ShipmentIds, r \in Readings :
          add_sensor_reading(sender, id, "sensor-1", r[1], r[2], "unit") /\ Sequential

Spec == Init /\ [][Next]_vars

-----------------------------------------------------------------------------
\* Bursts of incident reports: report_security_incident called again and again
\* on one shipment within one clock millisecond, starting from the state that
\* register_participant(alice, manufacturer) and create_shipment by alice
\* leave behind.

\* Longest burst of reports of mixed severities.
MaxMixed == 4
\* Longest burst of reports of the highest severity of the scale.
MaxReports == 10

\* The severities of the scale the specification names.
ScaleSeverities == 1..5

InitBurst ==
    /\ tracker =
         create_shipment_tracker(
             [admin |-> Admin, total_shipments |-> 0,
              active_shipments |-> EmptyTable,
              manufacturers |-> table_add(EmptyTable, "alice", ParticipantInfo("Acme")),
              distributors |-> EmptyTable, retailers |-> EmptyTable,
              customs_authorities |-> EmptyTable, auditors |-> EmptyTable],
             1, "alice", 2)
    /\ shipments = <<NewShipment("alice", 2, "TRK-1", "bob", LocOrigin, LocDest,
                                 <<SupplyStage("alice")>>, TempSpec)>>
    /\ clock = 3
    /\ lastCall = [op |-> "create_shipment", abort |-> NoAbort]
    /\ events = <<ShipmentCreated(1, "TRK-1", "alice", "bob", 2)>>
    /\ transfersOk = <<0>>
    /\ named = <<<<>>>>
    /\ inflight = <<>>

\* The transaction of report_security_incident at an unchanged clock.
report_security_incident_once(sender, id, alert_type, severity, description) ==
    LET s == shipments[id]
        abort == report_security_incident_abort(s, severity)
    IN /\ lastCall' = [op |-> "report_security_incident", abort |-> abort]
       /\ IF abort = NoAbort
          THEN /\ shipments' =
                    [shipments EXCEPT ![id] =
                         report_security_incident_effect(@, alert_type, severity,
                                                         description, clock)]
               /\ events' = <<SecurityIncident(id, alert_type, severity,
                                               s.current_location.address, clock)>>
          ELSE /\ UNCHANGED shipments
               /\ events' = <<>>
       /\ UNCHANGED <<tracker, clock, transfersOk, named, inflight>>

\* One report of the burst.
report_security_incident_burst(sender, id, alert_type, severity, description) ==
    LET s == shipments[id]
    IN /\ \/ Len(s.security_alerts) < MaxMixed
          \/ /\ Len(s.security_alerts) < MaxReports
             /\ severity = 5
             /\ \A i \in 1..Len(s.security_alerts) : s.security_alerts[i].severity = 5
       /\ report_security_incident_once(sender, id, alert_type, severity, description)

NextBurst ==
    \E sender \in Address, severity \in ScaleSeverities :
        report_security_incident_burst(sender, 1, "tamper", severity, "seal broken")

SpecBurst == InitBurst /\ [][NextBurst]_vars

-----------------------------------------------------------------------------
\* Reports over the whole 8-bit range of severity, on the shipment of InitBurst.

MaxWide == 2

WideSeverities == 0..U8Max

\* One report with any 8-bit severity.
report_security_incident_wide(sender, id, alert_type, severity, description) ==
    /\ Len(shipments[id].security_alerts) < MaxWide
    /\ report_security_incident_once(sender, id, alert_type, severity, description)

NextWide ==
    \E sender \in Address, severity \in WideSeverities :
        report_security_incident_wide(sender, 1, "tamper", severity, "seal broken")

SpecWide == InitBurst /\ [][NextWide]_vars

-----------------------------------------------------------------------------
\* Concurrent requests on one shipment.  The shipment is passed to every entry
\* function as &mut Shipment, so the ledger executes the transactions that
\* touch it one after the other, in an order of its choice: the requests in
\* flight are served one at a time, in every order.

\* Largest number of requests in flight.
MaxInflight == 3

Pending == "pending"

Request(op, sender, arg) == [op |-> op, sender |-> sender, arg |-> arg]

\* The requests that may be in flight: transfers by the shipper to each
\* address, a transfer by another party, a seal and a GPS point.
Requests ==
    {Request("transfer_custody", "alice", a) : a \in Address}
    \cup {Request("transfer_custody", "bob", "admin"),
          Request("add_tamper_seal", "alice", "seal-1"),
          Request("add_gps_point", "bob", "11")}

\* The state after the admin registered alice as manufacturer, bob as
\* distributor and itself as retailer and alice created a shipment, with a
\* batch of requests submitted.
InitRace ==
    /\ \E plan \in ShipmentPlans :
          shipments = <<NewShipment("alice", 1, "TRK-1", "bob", LocOrigin, LocDest,
                                     plan[1], plan[2])>>
    /\ tracker =
         create_shipment_tracker(
             [admin |-> Admin, total_shipments |-> 0,
              active_shipments |-> EmptyTable,
              manufacturers |-> table_add(EmptyTable, "alice", ParticipantInfo("Acme")),
              distributors |-> table_add(EmptyTable, "bob", ParticipantInfo("Acme")),
              retailers |-> table_add(EmptyTable, "admin", ParticipantInfo("Acme")),
              customs_authorities |-> EmptyTable, auditors |-> EmptyTable],
             1, "alice", 1)
    /\ clock = 2
    /\ lastCall = [op |-> "create_shipment", abort |-> NoAbort]
    /\ events = <<ShipmentCreated(1, "TRK-1", "alice", "bob", 1)>>
    /\ transfersOk = <<0>>
    /\ named = <<<<>>>>
    /\ \E batch \in SUBSET Requests :
          /\ Cardinality(batch) \in 2..MaxInflight
          /\ inflight = [req \in batch |-> Pending]

\* The ledger executes a pending request and the submitter learns the outcome.
Served(req) ==
    /\ Recorded
    /\ inflight' = [inflight EXCEPT ![req] = lastCall'.abort]

NextRace ==
    \/ \E req \in DOMAIN inflight :
          /\ inflight[req] = Pending /\ req.op = "transfer_custody"
          /\ transfer_custody(req.sender, 1, req.arg, "handover", LocPort, None)
          /\ Served(req)
    \/ \E req \in DOMAIN inflight :
          /\ inflight[req] = Pending /\ req.op = "add_tamper_seal"
          /\ add_tamper_seal(req.sender, 1, req.arg, "rfid")
          /\ Served(req)
    \/ \E req \in DOMAIN inflight :
          /\ inflight[req] = Pending /\ req.op = "add_gps_point"
          /\ add_gps_point(req.sender, 1, req.arg, "21", 5, "device")
          /\ Served(req)

SpecRace == InitRace /\ [][NextRace]_vars

-----------------------------------------------------------------------------
\* Helpers of the properties.

Last(seq) == seq[Len(seq)]
IsPrefix(a, b) == Len(a) <= Len(b) /\ SubSeq(b, 1, Len(a)) = a
Status(id) == tracker.active_shipments[id]

\* A party transfer_custody accepts as new custodian according to the
\* specification: registered and active under one of the four custody roles.
Eligible(a) ==
    \E t \in {"manufacturers", "distributors", "retailers", "customs_authorities"} :
        table_contains(tracker[t], a) /\ tracker[t][a].active

\* The last transaction was op and ended with abort code abort.
Ended(op, abort) == lastCall = [op |-> op, abort |-> abort]

\* The address is a registered participant: one of the role tables holds it.
Registered(a) ==
    \E t \in {"manufacturers", "distributors", "retailers", "customs_authorities",
               "auditors"} : table_contains(tracker[t], a)

\* The number a value string of Readings denotes, in the unit of the bounds
\* (hundredths of a degree, hundredths of a percent).
ValueOf(value) ==
    CASE value = "2000" -> 2000
      [] value = "5000" -> 5000
      [] value = "9000" -> 9000

\* The <<min, max>> bounds an environmental spec declares for the physical
\* quantity of a sensor type.
BoundsOf(env_spec, sensor_type) ==
    CASE sensor_type = "temperature" ->
             <<env_spec.min_temperature, env_spec.max_temperature>>
      [] sensor_type = "humidity" ->
             <<env_spec.min_humidity, env_spec.max_humidity>>
      [] OTHER -> <<None, None>>

\* The reading breaches a declared bound of its own quantity.
OutOfBounds(env_spec, sensor_type, value) ==
    LET b == BoundsOf(env_spec, sensor_type)
    IN \/ is_some(b[1]) /\ ValueOf(value) < b[1][1]
       \/ is_some(b[2]) /\ ValueOf(value) > b[2][1]

-----------------------------------------------------------------------------
\* C1: for every shipment and every step, current_stage_index never decreases
\* and never exceeds the number of stages of the plan (and no shipment is
\* ever removed).
C1_StageIndexMonotoneBounded ==
    [][/\ Len(shipments') >= Len(shipments)
       /\ \A id \in 1..Len(shipments') :
            /\ shipments'[id].current_stage_index <= Len(shipments'[id].stages)
            /\ id <= Len(shipments) =>
                 shipments'[id].current_stage_index >= shipments[id].current_stage_index]_vars

\* C1 witness: complete_stage has just brought a two-stage plan to its end.
C1_Witness ==
    /\ Ended("complete_stage", NoAbort)
    /\ \E id \in 1..Len(shipments) :
         shipments[id].current_stage_index = 2 /\ Len(shipments[id].stages) = 2

\* C2 as stated: in every state current_custodian is the signer of the most
\* recent custody-chain entry, or the shipper when the chain is empty.
C2_CustodianIsLastSigner ==
    \A id \in 1..Len(shipments) :
        LET s == shipments[id] IN
        s.current_custodian =
            IF s.custody_signatures = <<>> THEN s.shipper
            ELSE Last(s.custody_signatures).signer

\* C2 amended: current_custodian is the shipper while the chain is empty and
\* afterwards the new custodian named by the most recent successful
\* transfer_custody; the signer of the most recent entry is the party that
\* handed over, the custodian immediately before that transfer; no other
\* operation changes current_custodian.
C2_CustodianIsLastNamed ==
    [][\A id \in 1..Len(shipments') :
         LET s1 == shipments'[id] IN
         /\ s1.custody_signatures = <<>> => s1.current_custodian = s1.shipper
         /\ id <= Len(shipments) =>
              LET s0 == shipments[id] IN
              IF s1.custody_signatures # s0.custody_signatures
              THEN /\ Last(s1.custody_signatures).signer = s0.current_custodian
                   /\ Len(events') = 1
                   /\ events'[1].type = "CustodyTransferred"
                   /\ events'[1].shipment_id = id
                   /\ s1.current_custodian = events'[1].to_custodian
              ELSE s1.current_custodian = s0.current_custodian]_vars

\* C2 witness: a transfer to another party has happened, so the custodian is
\* not the signer of the last entry.
C2_Witness ==
    /\ Ended("transfer_custody", NoAbort)
    /\ \E id \in 1..Len(shipments) :
         /\ shipments[id].custody_signatures # <<>>
         /\ shipments[id].current_custodian # Last(shipments[id].custody_signatures).signer

\* C3: the custody chain is an append-only log.  Its length is the number of
\* successful transfer_custody calls on the shipment; a successful call
\* appends exactly one entry at the end; every other step, a rejected call
\* included, leaves the chain as it is.
C3_CustodyChainAppendOnly ==
    [][\A id \in 1..Len(shipments') :
         LET c1 == shipments'[id].custody_signatures
             c0 == IF id <= Len(shipments) THEN shipments[id].custody_signatures ELSE <<>>
             transferred == /\ lastCall' = [op |-> "transfer_custody", abort |-> NoAbort]
                            /\ events'[1].shipment_id = id
         IN /\ Len(c1) = transfersOk'[id]
            /\ IsPrefix(c0, c1)
            /\ Len(c1) = Len(c0) + (IF transferred THEN 1 ELSE 0)]_vars

\* C3 witness: two transfers succeeded on a shipment.
C3_Witness ==
    \E id \in 1..Len(shipments) :
        Len(shipments[id].custody_signatures) = 2 /\ transfersOk[id] = 2

\* C4: a successful transfer_custody appends an entry signed by the caller,
\* makes new_custodian the custodian and observed_location the current
\* location, and writes last_update and updated_by of the Tracker entry.
C4_TransferEffect ==
    [][lastCall'.op = "transfer_custody" =>
       \A sender \in Address, new_custodian \in Address, id \in 1..Len(shipments) :
         (/\ transfer_custody(sender, id, new_custodian, "handover", LocPort, None)
          /\ lastCall'.abort = NoAbort)
         => /\ Len(shipments'[id].custody_signatures)
                 = Len(shipments[id].custody_signatures) + 1
            /\ Last(shipments'[id].custody_signatures).signer = sender
            /\ Last(shipments'[id].custody_signatures).location = LocPort
            /\ shipments'[id].current_custodian = new_custodian
            /\ shipments'[id].current_location = LocPort
            /\ tracker'.active_shipments[id].last_update = clock
            /\ tracker'.active_shipments[id].updated_by = new_custodian
            /\ tracker'.active_shipments[id].status = tracker.active_shipments[id].status]_vars

\* C4 witness: a transfer to another party succeeded after the creation tick.
C4_Witness ==
    /\ Ended("transfer_custody", NoAbort)
    /\ \E id \in 1..Len(shipments) :
         /\ shipments[id].current_custodian # shipments[id].shipper
         /\ shipments[id].current_location = LocPort
         /\ Status(id).updated_by = shipments[id].current_custodian
         /\ Status(id).last_update > shipments[id].creation_timestamp

\* C5: transfer_custody by anyone but the current custodian fails with
\* Unauthorized and changes neither the shipment nor the Tracker.
C5_TransferByNonCustodianRejected ==
    [][lastCall'.op = "transfer_custody" =>
       \A sender \in Address, new_custodian \in Address, id \in 1..Len(shipments) :
         (/\ sender # shipments[id].current_custodian
          /\ transfer_custody(sender, id, new_custodian, "handover", LocPort, None))
         => /\ lastCall'.abort = ENotAuthorized
            /\ shipments' = shipments
            /\ tracker' = tracker]_vars

\* C5 witness: a transfer was rejected although every address is an eligible
\* new custodian, so the caller was not the custodian.
C5_Witness ==
    /\ Ended("transfer_custody", ENotAuthorized)
    /\ shipments # <<>>
    /\ \A a \in Address : Eligible(a)

C7_CompletedIffBelowIndex ==
    \A id \in 1..Len(shipments) :
        \A i \in 1..Len(shipments[id].stages) :
            shipments[id].stages[i].completed <=> (i - 1 < shipments[id].current_stage_index)

\* C8: a successful complete_stage on the last stage sets actual_delivery and
\* the Tracker status Delivered; on an earlier stage it sets neither; either
\* way the index advances by one (a two-stage plan goes 0, 1, 2).
C8_DeliveredOnLastStage ==
    [][lastCall'.op = "complete_stage" =>
       \A sender \in Address, id \in 1..Len(shipments) :
         (/\ complete_stage(sender, id, <<"vsig">>)
          /\ lastCall'.abort = NoAbort)
         => /\ shipments'[id].current_stage_index = shipments[id].current_stage_index + 1
            /\ IF shipments[id].current_stage_index + 1 = Len(shipments[id].stages)
               THEN /\ shipments'[id].actual_delivery = Some(clock)
                    /\ tracker'.active_shipments[id].status = Delivered
               ELSE /\ shipments'[id].actual_delivery = None
                    /\ tracker'.active_shipments[id].status # Delivered]_vars

\* C8 witness: the second call on a two-stage plan delivered the shipment.
C8_Witness ==
    /\ Ended("complete_stage", NoAbort)
    /\ \E id \in 1..Len(shipments) :
         /\ Len(shipments[id].stages) = 2
         /\ shipments[id].current_stage_index = 2
         /\ is_some(shipments[id].actual_delivery)
         /\ Status(id).status = Delivered

\* C9: complete_stage by a party other than the responsible party of the
\* current stage fails with Unauthorized; index, stages and Tracker status
\* stay as they are.
C9_CompleteByOtherPartyRejected ==
    [][lastCall'.op = "complete_stage" =>
       \A sender \in Address, id \in 1..Len(shipments) :
         (/\ shipments[id].current_stage_index < Len(shipments[id].stages)
          /\ sender # current_stage(shipments[id]).responsible_party
          /\ complete_stage(sender, id, <<"vsig">>))
         => /\ lastCall'.abort = ENotAuthorized
            /\ shipments'[id].current_stage_index = shipments[id].current_stage_index
            /\ shipments'[id].stages = shipments[id].stages
            /\ tracker'.active_shipments[id] = tracker.active_shipments[id]]_vars

\* C9 witness: a complete_stage call was rejected as unauthorized.
C9_Witness ==
    /\ Ended("complete_stage", ENotAuthorized)
    /\ \E id \in 1..Len(shipments) :
         shipments[id].current_stage_index < Len(shipments[id].stages)

\* C10: complete_stage with no stage remaining fails with InvalidTransition
\* for every caller and changes neither the shipment nor the Tracker.
C10_CompletePastEndRejected ==
    [][lastCall'.op = "complete_stage" =>
       \A sender \in Address, id \in 1..Len(shipments) :
         (/\ shipments[id].current_stage_index = Len(shipments[id].stages)
          /\ complete_stage(sender, id, <<"vsig">>))
         => /\ lastCall'.abort = EInvalidTransition
            /\ shipments' = shipments
            /\ tracker' = tracker]_vars

\* C10 witness: complete_stage was rejected on a shipment whose plan of one
\* or more stages is finished.
C10_Witness ==
    /\ Ended("complete_stage", EInvalidTransition)
    /\ \E id \in 1..Len(shipments) :
         /\ Len(shipments[id].stages) > 0
         /\ shipments[id].current_stage_index = Len(shipments[id].stages)

\* C11 as stated: the Tracker status of a shipment is Created after
\* create_shipment, and a successful transfer_custody or a successful
\* complete_stage that leaves stages to do makes it InTransit: after such an
\* operation the status is never still Created.
C11_InTransitAfterAdvance ==
    [][\A id \in 1..Len(shipments') :
         LET status1 == tracker'.active_shipments[id].status
             advanced ==
                 \/ /\ lastCall' = [op |-> "transfer_custody", abort |-> NoAbort]
                    /\ events'[1].shipment_id = id
                 \/ /\ lastCall' = [op |-> "complete_stage", abort |-> NoAbort]
                    /\ events'[1].shipment_id = id
                    /\ shipments'[id].current_stage_index < Len(shipments'[id].stages)
         IN /\ id > Len(shipments) => status1 = Created
            /\ advanced => status1 # Created
            /\ (advanced /\ tracker.active_shipments[id].status = Created)
                 => status1 = InTransit]_vars

\* C12: for every severity s in 1..5 and every prior risk score r, a
\* successful report_security_incident sets risk_score to min(100, r + 10*s);
\* ten reports of severity 5 in a row, starting from 0, yield exactly 100.
C12_RiskScoreSaturatingSum ==
    [][LET s0 == shipments[1]
           s1 == shipments'[1]
       IN /\ \A sender \in Address, severity \in ScaleSeverities :
               (/\ report_security_incident_burst(sender, 1, "tamper", severity,
                                                  "seal broken")
                /\ lastCall'.abort = NoAbort)
               => s1.risk_score =
                      IF s0.risk_score + 10 * severity < 100
                      THEN s0.risk_score + 10 * severity
                      ELSE 100
          /\ (/\ Len(s1.security_alerts) = 10
              /\ \A i \in 1..10 : s1.security_alerts[i].severity = 5)
               => s1.risk_score = 100]_vars

\* C12 witness: ten reports of severity 5 in a row were accepted on a shipment
\* that started with risk score 0.
C12_Witness ==
    /\ Ended("report_security_incident", NoAbort)
    /\ Len(shipments[1].security_alerts) = 10
    /\ \A i \in 1..10 : shipments[1].security_alerts[i].severity = 5
    /\ shipments[1].risk_score = 100

\* C13: in every reachable state risk_score lies in 0..100; no step decreases
\* it, a step of add_sensor_reading that records a violation included, and
\* only a successful report_security_incident changes it.
C13_RiskScoreBoundedMonotone ==
    [][\A id \in 1..Len(shipments') :
         /\ shipments'[id].risk_score \in 0..100
         /\ id <= Len(shipments) =>
              /\ shipments'[id].risk_score >= shipments[id].risk_score
              /\ shipments'[id].risk_score # shipments[id].risk_score
                   => lastCall' = [op |-> "report_security_incident", abort |-> NoAbort]]_vars

\* C13 witness: add_sensor_reading recorded a violation on a shipment whose
\* risk score an earlier report had raised.
C13_Witness ==
    /\ Ended("add_sensor_reading", NoAbort)
    /\ \E id \in 1..Len(shipments) :
         /\ shipments[id].risk_score = 50
         /\ shipments[id].condition_violations # <<>>
         /\ Last(shipments[id].sensor_readings).timestamp
                = Last(shipments[id].condition_violations).detected_timestamp

\* C14 as stated: every SecurityAlert stored on a shipment has a severity in
\* 1..5 and is recorded unresolved; report_security_incident with a severity
\* outside 1..5 is rejected, records no alert and changes no risk score.
C14_SeverityInScale ==
    [][/\ \A id \in 1..Len(shipments') :
            \A i \in 1..Len(shipments'[id].security_alerts) :
                /\ shipments'[id].security_alerts[i].severity \in ScaleSeverities
                /\ (id > Len(shipments) \/ i > Len(shipments[id].security_alerts))
                     => shipments'[id].security_alerts[i].resolved = FALSE
       /\ \A sender \in Address, id \in 1..Len(shipments), severity \in Severities :
            (/\ severity \notin ScaleSeverities
             /\ report_security_incident(sender, id, "tamper", severity, "seal broken"))
            => /\ lastCall'.abort # NoAbort
               /\ shipments'[id].security_alerts = shipments[id].security_alerts
               /\ shipments'[id].risk_score = shipments[id].risk_score]_vars

\* C15 as stated: add_sensor_reading appends no ConditionViolation when the
\* value of the reading lies within the declared bounds of its physical
\* quantity, or when the environmental spec declares no bound for it.
C15_NoViolationWithinBounds ==
    [][\A sender \in Address, id \in 1..Len(shipments), r \in Readings :
         (/\ add_sensor_reading(sender, id, "sensor-1", r[1], r[2], "unit")
          /\ ~ OutOfBounds(shipments[id].environmental_requirements, r[1], r[2]))
         => shipments'[id].condition_violations = shipments[id].condition_violations]_vars

\* C16: for a temperature reading outside the declared temperature bounds
\* (5000 against max_temperature 3000), add_sensor_reading appends exactly one
\* new ConditionViolation, which carries the sensor ID and the observed value
\* of the reading.
C16_TemperatureViolationRecorded ==
    [][lastCall'.op = "add_sensor_reading" =>
       \A sender \in Address, id \in 1..Len(shipments), r \in Readings :
         (/\ add_sensor_reading(sender, id, "sensor-1", r[1], r[2], "unit")
          /\ r[1] = "temperature"
          /\ OutOfBounds(shipments[id].environmental_requirements, r[1], r[2]))
         => /\ Len(shipments'[id].condition_violations)
                 = Len(shipments[id].condition_violations) + 1
            /\ IsPrefix(shipments[id].condition_violations,
                        shipments'[id].condition_violations)
            /\ Last(shipments'[id].condition_violations).sensor_id = "sensor-1"
            /\ Last(shipments'[id].condition_violations).actual_value = r[2]
            /\ Last(shipments'[id].condition_violations).detected_timestamp = clock]_vars

\* C16 witness: the reading 5000 against max_temperature 3000 has just been
\* recorded together with its violation.
C16_Witness ==
    /\ Ended("add_sensor_reading", NoAbort)
    /\ \E id \in 1..Len(shipments) :
         /\ shipments[id].environmental_requirements.max_temperature = Some(3000)
         /\ Last(shipments[id].sensor_readings).value = "5000"
         /\ Len(shipments[id].condition_violations) = 1
         /\ Last(shipments[id].condition_violations).actual_value = "5000"
         /\ Last(shipments[id].condition_violations).detected_timestamp
                = Last(shipments[id].sensor_readings).timestamp

\* C17 as stated: add_sensor_reading evaluates a reading against the bound of
\* its own physical quantity, for humidity as for temperature: a reading that
\* breaches a declared bound of its quantity appends a ConditionViolation.
C17_EveryQuantityEvaluated ==
    [][\A sender \in Address, id \in 1..Len(shipments), r \in Readings :
         (/\ add_sensor_reading(sender, id, "sensor-1", r[1], r[2], "unit")
          /\ OutOfBounds(shipments[id].environmental_requirements, r[1], r[2]))
         => /\ Len(shipments'[id].condition_violations)
                 = Len(shipments[id].condition_violations) + 1
            /\ Last(shipments'[id].condition_violations).actual_value = r[2]]_vars

\* C18: the GPS trail and the sensor trail are append-only logs.  Each
\* accepted add_gps_point and each add_sensor_reading, whatever its value and
\* whether or not the same call was made before, appends exactly one entry at
\* the end of its trail; earlier entries keep their value and their order in
\* every step.
C18_TrailsAppendOne ==
    [][\A id \in 1..Len(shipments) :
         LET gps0 == shipments[id].gps_coordinates
             gps1 == shipments'[id].gps_coordinates
             readings0 == shipments[id].sensor_readings
             readings1 == shipments'[id].sensor_readings
         IN /\ IsPrefix(gps0, gps1)
            /\ IsPrefix(readings0, readings1)
            /\ Len(gps1) = Len(gps0) +
                   (IF lastCall' = [op |-> "add_gps_point", abort |-> NoAbort]
                    THEN 1 ELSE 0)
            /\ Len(readings1) = Len(readings0) +
                   (IF lastCall'.op = "add_sensor_reading" THEN 1 ELSE 0)
            /\ lastCall'.op = "add_sensor_reading"
                 => /\ lastCall'.abort = NoAbort
                    /\ <<Last(readings1).sensor_type, Last(readings1).value>> \in Readings]_vars

\* C18 witness: the same add_sensor_reading call was made twice and the
\* sensor trail holds both readings.
C18_Witness ==
    /\ Ended("add_sensor_reading", NoAbort)
    /\ \E id \in 1..Len(shipments) :
         LET trail == shipments[id].sensor_readings IN
         /\ Len(trail) = 2
         /\ trail[1].sensor_id = trail[2].sensor_id
         /\ trail[1].sensor_type = trail[2].sensor_type
         /\ trail[1].value = trail[2].value

\* C19: a successful add_gps_point changes only the GPS trail and the
\* latitude and longitude of current_location; the other fields of
\* current_location, the custodian, the stage index, every other field of the
\* shipment and the Tracker keep their values.
C19_GpsFrame ==
    [][lastCall'.op = "add_gps_point" =>
       \A sender \in Address, id \in 1..Len(shipments), lat \in Latitudes :
         (/\ add_gps_point(sender, id, lat, "21", 5, "device")
          /\ lastCall'.abort = NoAbort)
         => /\ shipments'[id] =
                 [shipments[id] EXCEPT
                     !.gps_coordinates = shipments'[id].gps_coordinates,
                     !.current_location.latitude = lat,
                     !.current_location.longitude = "21"]
            /\ \A other \in 1..Len(shipments) :
                 other # id => shipments'[other] = shipments[other]
            /\ Len(shipments') = Len(shipments)
            /\ tracker' = tracker]_vars

\* C19 witness: after a custody transfer to the port, add_gps_point moved the
\* coordinates of current_location and left its address, country code and
\* facility type at the values of the port.
C19_Witness ==
    /\ Ended("add_gps_point", NoAbort)
    /\ \E id \in 1..Len(shipments) :
         /\ shipments[id].current_location =
                [LocPort EXCEPT !.latitude = "11", !.longitude = "21"]
         /\ shipments[id].current_location # LocPort
         /\ Len(shipments[id].gps_coordinates) = 1

\* C20: add_gps_point is accepted when the caller is the current custodian or
\* one of the authorized handlers of the shipment; for every other caller it
\* fails with Unauthorized and leaves the GPS trail and current_location as
\* they are.
C20_GpsCallerChecked ==
    [][lastCall'.op = "add_gps_point" =>
       \A sender \in Address, id \in 1..Len(shipments), lat \in Latitudes :
         add_gps_point(sender, id, lat, "21", 5, "device")
         => IF \/ sender = shipments[id].current_custodian
               \/ vector_contains(shipments[id].authorized_handlers, sender)
            THEN /\ lastCall'.abort = NoAbort
                 /\ Len(shipments'[id].gps_coordinates)
                      = Len(shipments[id].gps_coordinates) + 1
            ELSE /\ lastCall'.abort = ENotAuthorized
                 /\ shipments'[id].gps_coordinates = shipments[id].gps_coordinates
                 /\ shipments'[id].current_location = shipments[id].current_location]_vars

\* C20 witness: add_gps_point was rejected on a shipment whose trail holds a
\* point that its custodian added before.
C20_Witness ==
    /\ Ended("add_gps_point", ENotAuthorized)
    /\ \E id \in 1..Len(shipments) : Len(shipments[id].gps_coordinates) = 1

\* C21: add_tamper_seal by the current custodian appends exactly one seal,
\* recorded intact (broken = false) with applied_by the caller; by any other
\* caller it fails with Unauthorized and leaves the seal list as it is.
C21_SealByCustodianOnly ==
    [][lastCall'.op = "add_tamper_seal" =>
       \A sender \in Address, id \in 1..Len(shipments) :
         add_tamper_seal(sender, id, "seal-1", "rfid")
         => IF sender = shipments[id].current_custodian
            THEN /\ lastCall'.abort = NoAbort
                 /\ Len(shipments'[id].tamper_seals) = Len(shipments[id].tamper_seals) + 1
                 /\ IsPrefix(shipments[id].tamper_seals, shipments'[id].tamper_seals)
                 /\ Last(shipments'[id].tamper_seals).broken = FALSE
                 /\ Last(shipments'[id].tamper_seals).applied_by = sender
                 /\ Last(shipments'[id].tamper_seals).seal_id = "seal-1"
            ELSE /\ lastCall'.abort = ENotAuthorized
                 /\ shipments'[id].tamper_seals = shipments[id].tamper_seals]_vars

\* C21 witness: after the custodian applied a seal, add_tamper_seal by another
\* caller was rejected.
C21_Witness ==
    /\ Ended("add_tamper_seal", ENotAuthorized)
    /\ \E id \in 1..Len(shipments) :
         /\ Len(shipments[id].tamper_seals) = 1
         /\ shipments[id].tamper_seals[1].broken = FALSE
         /\ shipments[id].tamper_seals[1].applied_by = shipments[id].current_custodian

\* C22: a seal changes only from intact to broken.  In every step each seal
\* of the list stays at its place with its identity, a seal that is broken
\* stays broken, and no seal is removed.
C22_SealNeverUnbroken ==
    [][\A id \in 1..Len(shipments) :
         LET seals0 == shipments[id].tamper_seals
             seals1 == shipments'[id].tamper_seals
         IN /\ Len(seals1) >= Len(seals0)
            /\ \A i \in 1..Len(seals0) :
                 /\ seals0[i].broken => seals1[i].broken
                 /\ [seals1[i] EXCEPT !.broken = FALSE, !.broken_timestamp = None,
                                      !.break_detection_method = None]
                      = [seals0[i] EXCEPT !.broken = FALSE, !.broken_timestamp = None,
                                          !.break_detection_method = None]]_vars

\* C22 witness: a second seal was applied at a later time and the first seal
\* is still on the list, before it.
C22_Witness ==
    /\ Ended("add_tamper_seal", NoAbort)
    /\ \E id \in 1..Len(shipments) :
         /\ Len(shipments[id].tamper_seals) = 2
         /\ shipments[id].tamper_seals[1].applied_timestamp
                < shipments[id].tamper_seals[2].applied_timestamp

\* C23: create_shipment by a caller who is registered neither as manufacturer
\* nor as distributor (a caller registered only as retailer, customs authority
\* or auditor included) fails with Unauthorized: no shipment is created, the
\* Tracker gets no entry and total_shipments keeps its value.
C23_CreateByOtherRoleRejected ==
    [][lastCall'.op = "create_shipment" =>
       \A sender \in Address, tn \in TrackingNumbers, plan \in ShipmentPlans :
         (/\ ~ table_contains(tracker.manufacturers, sender)
          /\ ~ table_contains(tracker.distributors, sender)
          /\ create_shipment(sender, tn, "bob", LocOrigin, LocDest, plan[1], plan[2]))
         => /\ lastCall'.abort = ENotAuthorized
            /\ shipments' = shipments
            /\ tracker'.active_shipments = tracker.active_shipments
            /\ tracker'.total_shipments = tracker.total_shipments]_vars

\* C23 witness: create_shipment was rejected while the registry holds a
\* retailer, a customs authority and an auditor but neither a manufacturer nor
\* a distributor.
C23_Witness ==
    /\ Ended("create_shipment", ENotAuthorized)
    /\ tracker.manufacturers = EmptyTable /\ tracker.distributors = EmptyTable
    /\ table_contains(tracker.retailers, "admin")
    /\ table_contains(tracker.customs_authorities, "admin")
    /\ table_contains(tracker.auditors, "bob")
    /\ tracker.total_shipments = 0

\* C24: the shipment a successful create_shipment produces has
\* current_location = origin, current_custodian = shipper = caller,
\* current_stage_index = 0, risk_score = 0, an empty custody chain, seal list,
\* violation list, alert list, GPS trail and sensor trail, and an integrity
\* digest over tracking_number, origin.address and destination.address only.
C24_NewShipmentFields ==
    [][lastCall'.op = "create_shipment" =>
       \A sender \in Address, tn \in TrackingNumbers, plan \in ShipmentPlans :
         (/\ create_shipment(sender, tn, "bob", LocOrigin, LocDest, plan[1], plan[2])
          /\ lastCall'.abort = NoAbort)
         => /\ Len(shipments') = Len(shipments) + 1
            /\ LET s == Last(shipments') IN
               /\ s.origin = LocOrigin
               /\ s.current_location = LocOrigin
               /\ s.shipper = sender
               /\ s.current_custodian = sender
               /\ s.current_stage_index = 0
               /\ s.risk_score = 0
               /\ s.custody_signatures = <<>>
               /\ s.tamper_seals = <<>>
               /\ s.condition_violations = <<>>
               /\ s.security_alerts = <<>>
               /\ s.gps_coordinates = <<>>
               /\ s.sensor_readings = <<>>
               /\ s.integrity_hash
                    = keccak256(tn \o LocOrigin.address \o LocDest.address)]_vars

\* C24 witness: create_shipment has just succeeded and the new shipment is in
\* the hands of its shipper at the origin.
C24_Witness ==
    /\ Ended("create_shipment", NoAbort)
    /\ Len(shipments) = 1
    /\ shipments[1].current_location = LocOrigin
    /\ shipments[1].current_custodian = events[1].shipper
    /\ shipments[1].integrity_hash = keccak256("TRK-1Factory RdMarket St")

\* C25: shipment creation is atomic.  In every state a shipment object exists
\* exactly when the active index of the Tracker holds an entry for its ID,
\* total_shipments is the number of entries of the index, and right after
\* create_shipment the status of the new entry is Created.
C25_CreationAtomic ==
    /\ DOMAIN tracker.active_shipments = 1..Len(shipments)
    /\ tracker.total_shipments = Cardinality(DOMAIN tracker.active_shipments)
    /\ Ended("create_shipment", NoAbort)
         => /\ shipments # <<>>
            /\ Status(Len(shipments)).status = Created
            /\ Status(Len(shipments)).last_update = Last(shipments).creation_timestamp
            /\ Status(Len(shipments)).updated_by = Last(shipments).shipper

\* C25 witness: create_shipment has just registered the first shipment.
C25_Witness ==
    /\ Ended("create_shipment", NoAbort)
    /\ Len(shipments) = 1
    /\ tracker.total_shipments = 1
    /\ table_contains(tracker.active_shipments, 1)
    /\ Status(1).status = Created

\* C26: register_participant by anyone other than the registry admin fails
\* with Unauthorized and leaves every role table unchanged; a call that
\* changes the registry was made by the admin.
C26_RegisterAdminOnly ==
    [][lastCall'.op = "register_participant"
         => /\ \/ lastCall'.abort = ENotAuthorized /\ tracker' = tracker
               \/ \A sender \in Address \ {tracker.admin}, reg \in Registrations :
                      ~ register_participant(sender, reg[1], "Acme", reg[2])
            /\ tracker' # tracker
                 => \E reg \in Registrations :
                       register_participant(tracker.admin, reg[1], "Acme", reg[2])]_vars

\* C26 witness: register_participant was rejected as unauthorized although the
\* registry is still empty, so the caller was not the admin.
C26_Witness ==
    /\ Ended("register_participant", ENotAuthorized)
    /\ \A t \in {"manufacturers", "distributors", "retailers",
                 "customs_authorities", "auditors"} : tracker[t] = EmptyTable

\* C27 as stated: register_participant is idempotent by identity.  The admin
\* registering an identity again under a role it already has succeeds and
\* overwrites the stored record, so that an identical registration leaves the
\* registry as it was.
C27_ReRegistrationOverwrites ==
    [][\A reg \in Registrations :
         (/\ RoleTable(reg[2]) # ""
          /\ table_contains(tracker[RoleTable(reg[2])], reg[1])
          /\ register_participant(tracker.admin, reg[1], "Acme", reg[2]))
         => /\ lastCall'.abort = NoAbort
            /\ tracker' = [tracker EXCEPT ![RoleTable(reg[2])][reg[1]] =
                                              ParticipantInfo("Acme")]]_vars

C29_CallerRevalidated ==
    [][\A sender \in Address, id \in 1..Len(shipments) :
         (/\ ~ Registered(sender)
          /\ \/ \E new_custodian \in Address :
                   transfer_custody(sender, id, new_custodian, "handover", LocPort, None)
             \/ complete_stage(sender, id, <<"vsig">>)
             \/ add_tamper_seal(sender, id, "seal-1", "rfid")
             \/ \E r \in Readings :
                   add_sensor_reading(sender, id, "sensor-1", r[1], r[2], "unit")
             \/ \E severity \in Severities :
                   report_security_incident(sender, id, "tamper", severity, "seal broken"))
         => /\ lastCall'.abort # NoAbort
            /\ shipments' = shipments
            /\ tracker' = tracker]_vars

\* C30 as stated: every successful create_shipment, transfer_custody,
\* complete_stage, add_tamper_seal, add_sensor_reading and
\* report_security_incident emits exactly one event for the operation
\* (ShipmentCreated, CustodyTransferred, StageCompleted and SecurityIncident
\* for the four kinds that are named).
C30_EveryOperationEmits ==
    (/\ lastCall.abort = NoAbort
     /\ lastCall.op \in {"create_shipment", "transfer_custody", "complete_stage",
                         "add_tamper_seal", "add_sensor_reading",
                         "report_security_incident"})
    => /\ Len(events) = 1
       /\ lastCall.op = "create_shipment" => events[1].type = "ShipmentCreated"
       /\ lastCall.op = "transfer_custody" => events[1].type = "CustodyTransferred"
       /\ lastCall.op = "complete_stage" => events[1].type = "StageCompleted"
       /\ lastCall.op = "report_security_incident" => events[1].type = "SecurityIncident"

\* C31: the current custodian (alice) has two transfer_custody requests in
\* flight that name two different registered new custodians, neither of them
\* alice.  In every order of execution exactly one of the two is applied, the
\* custody chain grows by exactly one entry and the custodian is the party
\* the applied request named; the other request is rejected as Unauthorized.
C31_OneOfTwoTransfersApplied ==
    LET toBob == Request("transfer_custody", "alice", "bob")
        toAdmin == Request("transfer_custody", "alice", "admin")
        transfers == {req \in DOMAIN inflight : req.op = "transfer_custody"}
        done == {req \in transfers : inflight[req] # Pending}
        applied == {req \in transfers : inflight[req] = NoAbort}
    IN transfers = {toBob, toAdmin}
       => /\ Len(shipments[1].custody_signatures) = Cardinality(applied)
          /\ done # {} => Cardinality(applied) = 1
          /\ \A req \in done \ applied : inflight[req] = ENotAuthorized
          /\ \A req \in applied : shipments[1].current_custodian = req.arg
          /\ applied = {} => shipments[1].current_custodian = "alice"

\* C31 witness: both requests were served, the one naming admin first; the
\* one naming bob was rejected as unauthorized.
C31_Witness ==
    /\ DOMAIN inflight = {Request("transfer_custody", "alice", "bob"),
                          Request("transfer_custody", "alice", "admin")}
    /\ inflight[Request("transfer_custody", "alice", "admin")] = NoAbort
    /\ inflight[Request("transfer_custody", "alice", "bob")] = ENotAuthorized
    /\ Len(shipments[1].custody_signatures) = 1
    /\ shipments[1].current_custodian = "admin"

\* C32: the integrity digest create_shipment sets is never changed afterwards:
\* no step of transfer_custody, complete_stage, add_tamper_seal,
\* add_gps_point, add_sensor_reading or report_security_incident changes
\* integrity_hash.
C32_DigestFrozen ==
    [][\A id \in 1..Len(shipments) :
         shipments'[id].integrity_hash = shipments[id].integrity_hash]_vars

\* C32 witness: a custody transfer moved the shipment to the port and a later
\* operation acted on it; the digest is still the one of the creation data.
C32_Witness ==
    /\ lastCall.op # "transfer_custody" /\ lastCall.abort = NoAbort
    /\ \E id \in 1..Len(shipments) :
         /\ shipments[id].custody_signatures # <<>>
         /\ shipments[id].current_location.address = "Dock 4"
         /\ shipments[id].integrity_hash = keccak256("TRK-1Factory RdMarket St")

\* C33: in every reachable state the custody chain is linked.  The signer of
\* the first entry is the shipper, the signer of each later entry is the
\* party the transfer immediately before it named as new custodian, and
\* current_custodian is the party the last successful transfer named.
C33_CustodyChainLinked ==
    \A id \in 1..Len(shipments) :
        LET chain == shipments[id].custody_signatures
            names == named[id]
        IN /\ Len(chain) = Len(names)
           /\ chain # <<>> => chain[1].signer = shipments[id].shipper
           /\ \A i \in 2..Len(chain) : chain[i].signer = names[i - 1]
           /\ names # <<>> => shipments[id].current_custodian = Last(names)

\* C33 witness: two transfers that named different parties succeeded on a
\* shipment.
C33_Witness ==
    \E id \in 1..Len(shipments) :
        /\ Len(shipments[id].custody_signatures) = 2
        /\ Len(named[id]) = 2
        /\ named[id][1] # named[id][2]
        /\ shipments[id].custody_signatures[2].signer # shipments[id].shipper

\* C34: Delivered is absorbing.  Once the Tracker status of a shipment is
\* Delivered, no step changes the status or actual_delivery, while
\* transfer_custody, add_tamper_seal, add_gps_point and
\* report_security_incident by the custodian are still accepted on the
\* delivered shipment (add_sensor_reading never rejects).
C34_DeliveredAbsorbing ==
    [][\A id \in 1..Len(shipments) :
         Status(id).status = Delivered
         => /\ tracker'.active_shipments[id].status = Delivered
            /\ is_delivered(shipments[id])
            /\ shipments'[id].actual_delivery = shipments[id].actual_delivery
            /\ LET s == shipments[id] IN
               /\ transfer_custody_abort(tracker, s, s.current_custodian,
                                         s.current_custodian) = NoAbort
               /\ add_tamper_seal_abort(s, s.current_custodian) = NoAbort
               /\ add_gps_point_abort(s, s.current_custodian) = NoAbort
               /\ report_security_incident_abort(s, 5) = NoAbort]_vars

\* C34 witness: a custody transfer was accepted on a delivered shipment and
\* left it delivered, at the delivery time complete_stage had set.
C34_Witness ==
    /\ Ended("transfer_custody", NoAbort)
    /\ \E id \in 1..Len(shipments) :
         /\ Status(id).status = Delivered
         /\ is_delivered(shipments[id])
         /\ Status(id).last_update > shipments[id].actual_delivery[1]

\* C35: a shipment created with an empty stage plan never reaches Delivered.
\* create_shipment accepts the empty plan, every complete_stage call on the
\* shipment fails with InvalidTransition, its Tracker status stays Created
\* and actual_delivery stays unset.
C35_EmptyPlanNeverDelivered ==
    \A id \in 1..Len(shipments) :
        shipments[id].stages = <<>>
        => /\ Status(id).status = Created
           /\ shipments[id].actual_delivery = None
           /\ shipments[id].current_stage_index = 0
           /\ \A completer \in Address :
                complete_stage_abort(shipments[id], completer) = EInvalidTransition
           /\ (Len(shipments) = 1 /\ lastCall.op = "complete_stage")
                => lastCall.abort = EInvalidTransition

\* C35 witness: complete_stage was rejected on a shipment with an empty plan
\* that has already changed hands.
C35_Witness ==
    /\ Ended("complete_stage", EInvalidTransition)
    /\ Len(shipments) = 1
    /\ shipments[1].stages = <<>>
    /\ shipments[1].custody_signatures # <<>>
    /\ Status(1).status = Created

\* The risk score the code computes from a sequence of accepted alerts.
RECURSIVE RiskAfter(_)
RiskAfter(alerts) ==
    IF alerts = <<>> THEN 0
    ELSE LET before == RiskAfter(SubSeq(alerts, 1, Len(alerts) - 1))
             sum == before + 10 * Last(alerts).severity
         IN IF sum < 100 THEN sum ELSE 100

C37_NoHandlersCustodianOnly ==
    [][/\ \A id \in 1..Len(shipments) :
            /\ shipments[id].authorized_handlers = <<>>
            /\ shipments'[id].authorized_handlers = <<>>
            /\ \A a \in Address :
                 add_gps_point_abort(shipments[id], a) = NoAbort
                 <=> a = shipments[id].current_custodian
       /\ lastCall' = [op |-> "add_gps_point", abort |-> NoAbort]
            => \E id \in 1..Len(shipments), lat \in Latitudes :
                 add_gps_point(shipments[id].current_custodian, id, lat, "21", 5,
                               "device")]_vars

\* C37 witness: add_gps_point was accepted from the custodian while another
\* registered party, the consignee, is no handler of the shipment.
C37_Witness ==
    /\ Ended("add_gps_point", NoAbort)
    /\ \E id \in 1..Len(shipments) :
         LET s == shipments[id]
         IN /\ s.gps_coordinates # <<>>
            /\ s.authorized_handlers = <<>>
            /\ s.consignee # s.current_custodian
            /\ Eligible(s.consignee)

\* C38: register_participant called by the admin with a role string other
\* than manufacturer, distributor, retailer, customs or auditor completes
\* without an error and leaves all five role tables unchanged; the named
\* identity stays unregistered.
C38_UnknownRoleSilentNoOp ==
    [][lastCall'.op = "register_participant" =>
       \A reg \in Registrations :
         (/\ reg[2] \notin {"manufacturer", "distributor", "retailer", "customs",
                            "auditor"}
          /\ register_participant(tracker.admin, reg[1], "Acme", reg[2]))
         => /\ lastCall'.abort = NoAbort
            /\ \A t \in {"manufacturers", "distributors", "retailers",
                         "customs_authorities", "auditors"} :
                 tracker'[t] = tracker[t]
            /\ tracker' = tracker
            /\ ~Registered(reg[1]) => \A t \in {"manufacturers", "distributors",
                                                "retailers", "customs_authorities",
                                                "auditors"} :
                                        ~table_contains(tracker'[t], reg[1])]_vars

\* C38 witness: a registration by the admin completed without an error and
\* all five role tables are still empty.
C38_Witness ==
    /\ Ended("register_participant", NoAbort)
    /\ ~Registered("alice")
    /\ \A t \in {"manufacturers", "distributors", "retailers",
                 "customs_authorities", "auditors"} : tracker[t] = EmptyTable
====
